---------------------------- MODULE Spec2Model ----------------------------
(***************************************************************************)
(* The live metrics broadcaster of src/app.py (generate_real_time_data,    *)
(* the socket handlers, the history table analytics_data and its queries)  *)
(* and the stateless live endpoint of src/flask_app.py; register on table *)
(* users; the initialization of analytics.db by src/app.py,                *)
(* src/flask_app.py and src/simple_main.py; and the login of               *)
(* src/app/api/api_v1/endpoints/auth.py.                                   *)
(*                                                                         *)
(* Numbers.  Metric values and variations are Python floats; here they are *)
(* integers counting thousandths (1.0 is 1000), so round(x, 2) is a real   *)
(* rounding to a multiple of 10.  change_percent counts hundredths of a    *)
(* percent (10.0 % is 1000).  Instants count half seconds; a timestamp as  *)
(* stored is the isoformat text, modelled by IsoFormat as the sequence of  *)
(* its seconds field and, only when it is not zero, its fraction field,    *)
(* and compared as SQLite compares TEXT (TextLeq).                         *)
(***************************************************************************)
EXTENDS Integers, Sequences, FiniteSets, TLC

VARIABLES
    connected_clients,  \* src/app.py:32, the set of sids
    real_time_data,     \* src/app.py:33, the dict of the last tick
    analytics_room,     \* members of the socket room 'analytics'
    metric_rooms,       \* sid -> the metric names m whose room metric_<m> it joined
    cpc,                \* sid -> position of its socket handler
    inbox,              \* sid -> the analytics_update payloads its open connection
                        \*        received, in order
    lpc,                \* position of the thread running generate_real_time_data
    new_data,           \* the local new_data of generate_real_time_data
    tick_base,          \* the base_value read for each metric in the current tick
    tick_var,           \* the variation drawn for each metric in the current tick
    history,            \* table analytics_data, in rowid order
    now,                \* the wall clock
    ticks,              \* number of active ticks started
    probe,              \* the last result of a stateless request or pure call
    users,              \* table users, in rowid order
    reg,                \* request -> position and data of its call of register
    starts              \* number of times a process of the repository started

vars == <<connected_clients, real_time_data, analytics_room, metric_rooms, cpc,
          inbox, lpc, new_data, tick_base, tick_var, history, now, ticks, probe,
          users, reg, starts>>

-----------------------------------------------------------------------------
(* Bounds of the model *)

\* active ticks the broadcaster thread may start
MaxTicks == 2
\* the sids of the socket connections that may be opened, in the order the
\* server hands them out
Sids == <<"sid_a", "sid_b">>

Clients == {Sids[i] : i \in 1 .. Len(Sids)}

-----------------------------------------------------------------------------
(* Arithmetic *)

\* a mutant of Max0: the clamp left out
Max0Unclamped(x) == x

\* max(0, x)
Max0(x) == IF x > 0 THEN x ELSE 0

Abs(x) == IF x < 0 THEN -x ELSE x

\* n / d rounded to the nearest integer, ties to even, for d > 0
RoundHalfEven(n, d) ==
    LET q == n \div d
        r == n % d
    IN  IF 2 * r < d THEN q
        ELSE IF 2 * r > d THEN q + 1
        ELSE IF q % 2 = 0 THEN q ELSE q + 1

\* round(x, 2) on thousandths
Round2(x) == 10 * RoundHalfEven(x, 10)

\* n * 10000 / d rounded to the nearest integer, ties to even, for d > 0, by
\* long division (the product n * 10000 itself may not fit the checker's
\* integers)
RoundRatio(n, d) ==
    LET q0 == n \div d
        r0 == n % d
        d1 == (r0 * 10) \div d
        r1 == (r0 * 10) % d
        d2 == (r1 * 10) \div d
        r2 == (r1 * 10) % d
        d3 == (r2 * 10) \div d
        r3 == (r2 * 10) % d
        d4 == (r3 * 10) \div d
        r4 == (r3 * 10) % d
        q == q0 * 10000 + d1 * 1000 + d2 * 100 + d3 * 10 + d4
    IN  IF 2 * r4 < d THEN q
        ELSE IF 2 * r4 > d THEN q + 1
        ELSE IF q % 2 = 0 THEN q ELSE q + 1

\* round((variation / base_value) * 100, 2), in hundredths of a percent
PercentOf(variation, base_value) ==
    IF base_value > 0
    THEN RoundRatio(variation, base_value)
    ELSE -RoundRatio(variation, -base_value)


-----------------------------------------------------------------------------
(* Timestamps *)

\* datetime.isoformat(): the fraction is left out when it is zero
IsoFormat(t) == IF t % 2 = 0 THEN <<t \div 2>> ELSE <<t \div 2, t % 2>>

\* SQLite's comparison a <= b of two TEXT timestamps: the seconds field has a
\* fixed width, and a text that is a prefix of another sorts before it
TextLeq(a, b) ==
    \/ a[1] < b[1]
    \/ /\ a[1] = b[1]
       /\ \/ Len(a) = 1
          \/ Len(b) = 2 /\ a[2] <= b[2]

\* the instant a timestamp text stands for
Instant(text) == 2 * text[1] + (IF Len(text) = 2 THEN text[2] ELSE 0)

Hour == 2 * 3600

Day == 24 * Hour

-----------------------------------------------------------------------------
(* Random draws: random.uniform(lo, hi) and random.randint(lo, hi) *)

\* the points a draw from [lo, hi] is sampled at.  Coarse: the two ends.
\* Fine: also the middle, zero, and values next to zero that round(x, 2) moves
DrawPoints(lo, hi, fine) ==
    IF fine
    THEN {lo, hi, (lo + hi) \div 2, -1000, -4, 0, 4, 5, 15, 1000}
    ELSE {lo, hi}

\* random.uniform(lo, hi)
Uniform(lo, hi, fine) ==
    {v \in DrawPoints(lo, hi, fine) : lo <= v /\ v <= hi}

\* random.randint(lo, hi): whole numbers only
RandInt(lo, hi, fine) ==
    {v \in DrawPoints(lo, hi, fine) : lo <= v /\ v <= hi /\ v % 1000 = 0}

-----------------------------------------------------------------------------
(* The metric generator of src/app.py *)

\* the list metrics of generate_real_time_data, in its order
BroadcastMetrics ==
    <<"revenue", "active_users", "orders", "conversion_rate", "page_views">>

BroadcastSet == {BroadcastMetrics[i] : i \in 1 .. Len(BroadcastMetrics)}

\* a mutant of GenerateRealisticVariation: the range of revenue for every
\* metric
GenerateRealisticVariationOfRevenue(metric, fine) ==
    Uniform(-100000, 200000, fine)

\* generate_realistic_variation: the values it may return for a metric
GenerateRealisticVariation(metric, fine) ==
    CASE metric = "revenue" -> Uniform(-100000, 200000, fine)
      [] metric = "active_users" -> RandInt(-10000, 25000, fine)
      [] metric = "orders" -> RandInt(-2000, 5000, fine)
      [] metric = "conversion_rate" -> Uniform(-500, 1000, fine)
      [] metric = "page_views" -> RandInt(-50000, 100000, fine)
      [] OTHER -> Uniform(-5000, 10000, fine)

\* a mutant of NewSample: a move away from zero reported as 100 percent
NewSampleFromZero(base_value, variation, t) ==
    [value |-> Round2(Max0(base_value + variation)),
     timestamp |-> IsoFormat(t),
     change |-> Round2(variation),
     change_percent |->
        IF base_value # 0 THEN PercentOf(variation, base_value)
        ELSE IF variation # 0 THEN 100 * 100 ELSE 0]

\* the entry built for one metric by the loop body of generate_real_time_data
NewSample(base_value, variation, t) ==
    [value |-> Round2(Max0(base_value + variation)),
     timestamp |-> IsoFormat(t),
     change |-> Round2(variation),
     change_percent |->
        IF base_value # 0 THEN PercentOf(variation, base_value) ELSE 0]


-----------------------------------------------------------------------------
(* The sample data of init_database *)

\* days and hours of sample data (7 and 24 in generate_comprehensive_sample_data)
SeedDays == 1
SeedHours == 1

\* the dict metrics of generate_comprehensive_sample_data, flattened in its
\* iteration order, with the entry of base_values of generate_realistic_value
\* for each metric: base + day * per_day + hour * per_hour + a draw from
\* [lo, hi] (random.randint when whole, else random.uniform)
SeedTable ==
    <<
      [category |-> "sales", metric |-> "revenue", base |-> 1000000, per_day |-> 100000, per_hour |-> 50000,
       lo |-> -200000, hi |-> 300000, whole |-> FALSE],
      [category |-> "sales", metric |-> "orders", base |-> 15000, per_day |-> 2000, per_hour |-> 0,
       lo |-> -3000, hi |-> 8000, whole |-> TRUE],
      [category |-> "sales", metric |-> "average_order_value", base |-> 65000, per_day |-> 0, per_hour |-> 0,
       lo |-> -10000, hi |-> 20000, whole |-> FALSE],
      [category |-> "sales", metric |-> "refunds", base |-> 0, per_day |-> 0, per_hour |-> 0,
       lo |-> 0, hi |-> 5000, whole |-> TRUE],
      [category |-> "users", metric |-> "active_users", base |-> 200000, per_day |-> 10000, per_hour |-> 5000,
       lo |-> -20000, hi |-> 40000, whole |-> TRUE],
      [category |-> "users", metric |-> "new_signups", base |-> 5000, per_day |-> 0, per_hour |-> 0,
       lo |-> 0, hi |-> 15000, whole |-> TRUE],
      [category |-> "users", metric |-> "user_retention", base |-> 75000, per_day |-> 0, per_hour |-> 0,
       lo |-> -5000, hi |-> 10000, whole |-> FALSE],
      [category |-> "users", metric |-> "churn_rate", base |-> 5000, per_day |-> 0, per_hour |-> 0,
       lo |-> -2000, hi |-> 3000, whole |-> FALSE],
      [category |-> "performance", metric |-> "page_load_time", base |-> 1200, per_day |-> 0, per_hour |-> 0,
       lo |-> -300, hi |-> 800, whole |-> FALSE],
      [category |-> "performance", metric |-> "bounce_rate", base |-> 45000, per_day |-> 0, per_hour |-> 0,
       lo |-> -10000, hi |-> 15000, whole |-> FALSE],
      [category |-> "performance", metric |-> "session_duration", base |-> 180000, per_day |-> 0, per_hour |-> 0,
       lo |-> -60000, hi |-> 120000, whole |-> TRUE],
      [category |-> "performance", metric |-> "error_rate", base |-> 0, per_day |-> 0, per_hour |-> 0,
       lo |-> 0, hi |-> 2000, whole |-> FALSE],
      [category |-> "marketing", metric |-> "conversion_rate", base |-> 8000, per_day |-> 0, per_hour |-> 0,
       lo |-> -2000, hi |-> 4000, whole |-> FALSE],
      [category |-> "marketing", metric |-> "click_through_rate", base |-> 3500, per_day |-> 0, per_hour |-> 0,
       lo |-> -1000, hi |-> 2000, whole |-> FALSE],
      [category |-> "marketing", metric |-> "cost_per_acquisition", base |-> 25000, per_day |-> 0, per_hour |-> 0,
       lo |-> -5000, hi |-> 15000, whole |-> FALSE],
      [category |-> "marketing", metric |-> "roi", base |-> 150000, per_day |-> 0, per_hour |-> 0,
       lo |-> -30000, hi |-> 50000, whole |-> FALSE],
      [category |-> "geography", metric |-> "us_visitors", base |-> 40000, per_day |-> 0, per_hour |-> 0,
       lo |-> -5000, hi |-> 15000, whole |-> TRUE],
      [category |-> "geography", metric |-> "eu_visitors", base |-> 30000, per_day |-> 0, per_hour |-> 0,
       lo |-> -5000, hi |-> 10000, whole |-> TRUE],
      [category |-> "geography", metric |-> "asia_visitors", base |-> 20000, per_day |-> 0, per_hour |-> 0,
       lo |-> -3000, hi |-> 8000, whole |-> TRUE],
      [category |-> "geography", metric |-> "other_visitors", base |-> 10000, per_day |-> 0, per_hour |-> 0,
       lo |-> -2000, hi |-> 5000, whole |-> TRUE]
    >>

SeedMetricSet == {SeedTable[i].metric : i \in 1 .. Len(SeedTable)}

\* generate_realistic_value: the values it may return
GenerateRealisticValue(metric, day, hour, fine) ==
    IF metric \in SeedMetricSet
    THEN LET e == CHOOSE x \in {SeedTable[i] : i \in 1 .. Len(SeedTable)} :
                    x.metric = metric
             draws == IF e.whole THEN RandInt(e.lo, e.hi, fine)
                                 ELSE Uniform(e.lo, e.hi, fine)
         IN  {Max0(e.base + day * e.per_day + hour * e.per_hour + d) : d \in draws}
    ELSE {Max0(d) : d \in Uniform(1000, 100000, fine)}

SetMin(S) == CHOOSE x \in S : \A y \in S : x <= y

SetMax(S) == CHOOSE x \in S : \A y \in S : y <= x

\* a mutant of SeedBaseTime: the week is added, not subtracted
SeedBaseTimeAhead(t0) == t0 + 7 * Day

\* line 107: base_time of the sample data generated at instant t0
SeedBaseTime(t0) == t0 - 7 * Day

\* generate_comprehensive_sample_data called at instant t0, with every draw of
\* generate_realistic_value at its low end
GenerateComprehensiveSampleData(t0) ==
    LET n == Len(SeedTable)
        base_time == SeedBaseTime(t0)
    IN  [k \in 1 .. SeedDays * SeedHours * n |->
            LET slot == (k - 1) \div n
                e == SeedTable[((k - 1) % n) + 1]
                day == slot \div SeedHours
                hour == slot % SeedHours
                vals == GenerateRealisticValue(e.metric, day, hour, FALSE)
            IN  [metric_name |-> e.metric,
                 value |-> SetMin(vals),
                 timestamp |-> IsoFormat(base_time + day * Day + hour * Hour),
                 category |-> e.category,
                 source |-> "historical"]]


-----------------------------------------------------------------------------
(* The history store: table analytics_data *)

\* a Python dict with no key
EmptyDict == [m \in {} |-> 0]

\* a mutant of LatestRows: ORDER BY timestamp ASC
LatestRowsAscending(h, metric) ==
    LET rows == {i \in DOMAIN h : h[i].metric_name = metric}
    IN  {i \in rows : \A j \in rows : TextLeq(h[i].timestamp, h[j].timestamp)}

\* a mutant of LatestRows: the metric is not looked at
LatestRowsAnyMetric(h, metric) ==
    {i \in DOMAIN h : \A j \in DOMAIN h : TextLeq(h[j].timestamp, h[i].timestamp)}

\* the rows of metric whose timestamp no row of metric exceeds: the candidates
\* of ORDER BY timestamp DESC LIMIT 1 (SQLite may return any of several equal)
LatestRows(h, metric) ==
    LET rows == {i \in DOMAIN h : h[i].metric_name = metric}
    IN  {i \in rows : \A j \in rows : TextLeq(h[j].timestamp, h[i].timestamp)}

\* get_latest_metric_value: the values it may return
GetLatestMetricValue(h, metric, fine) ==
    IF LatestRows(h, metric) # {}
    THEN {h[i].value : i \in LatestRows(h, metric)}
    ELSE GenerateRealisticValue(metric, 0, 12, fine)

\* a mutant of StoreRows: only the first key is stored
StoreRowsFirstKey(data) ==
    LET keys == SelectSeq(BroadcastMetrics, LAMBDA m : m \in DOMAIN data)
    IN  [k \in 1 .. (IF Len(keys) > 0 THEN 1 ELSE 0) |->
            [metric_name |-> keys[k],
             value |-> data[keys[k]].value,
             timestamp |-> data[keys[k]].timestamp,
             category |-> "realtime",
             source |-> "live"]]

\* the rows store_real_time_data inserts for data, in the order of its keys
StoreRows(data) ==
    LET keys == SelectSeq(BroadcastMetrics, LAMBDA m : m \in DOMAIN data)
    IN  [k \in 1 .. Len(keys) |->
            [metric_name |-> keys[k],
             value |-> data[keys[k]].value,
             timestamp |-> data[keys[k]].timestamp,
             category |-> "realtime",
             source |-> "live"]]

\* rows left by an earlier run of the process: init_database inserts sample
\* data only into an empty table, and analytics.db outlives the process
PriorRunData(t0) ==
    LET t == t0 - Hour
    IN  StoreRows(
          [m \in BroadcastSet |->
              NewSample(0,
                        CASE m = "revenue" -> 100000
                          [] m = "active_users" -> 0
                          [] m = "orders" -> 1000
                          [] m = "conversion_rate" -> 300
                          [] OTHER -> 20000,
                        t)])

-----------------------------------------------------------------------------
(* The broadcaster thread: generate_real_time_data *)

REFRESH_INTERVAL == 5

\* the random draws of one tick, one per metric, sampled as whole vectors: all
\* at the low end of their ranges, or all at the high end
TickDraws ==
    {[m \in BroadcastSet |-> SetMin(GenerateRealisticVariation(m, FALSE))],
     [m \in BroadcastSet |-> SetMax(GenerateRealisticVariation(m, FALSE))]}

\* the metric the for loop handles next
NextMetric == BroadcastMetrics[Cardinality(DOMAIN new_data) + 1]

\* a mutant of AnyClient: the gate always open
AnyClientAlways == TRUE

\* a mutant of AnyClient: the condition inverted
AnyClientInverted == connected_clients = {}

\* line 203: the condition of the if
AnyClient == connected_clients # {}

\* a mutant of StepAfter: the rows stored before the emit
StepAfterStoreFirst(pc) ==
    CASE pc = "assign" -> "store"
      [] pc = "store" -> "emit"
      [] pc = "emit" -> "sleep"

\* lines 220-226: the statement that follows each statement of the if body
StepAfter(pc) ==
    CASE pc = "assign" -> "emit"
      [] pc = "emit" -> "store"
      [] pc = "store" -> "sleep"

\* lines 203-206: the gate on connected_clients, and a fresh new_data when it
\* is open
LoopCheck ==
    /\ lpc = "check"
    /\ ticks < MaxTicks
    /\ ticks' = ticks + 1
    /\ IF AnyClient
       THEN /\ new_data' = EmptyDict
            /\ tick_base' = EmptyDict
            /\ tick_var' = EmptyDict
            /\ lpc' = "generate"
       ELSE /\ UNCHANGED <<new_data, tick_base, tick_var>>
            /\ lpc' = "sleep"
    /\ UNCHANGED <<connected_clients, real_time_data, analytics_room,
                   metric_rooms, cpc, inbox, history, now, probe,
                   users, reg, starts>>

\* lines 208-218: one iteration of the for loop
LoopGenerate ==
    /\ lpc = "generate"
    /\ \E base_value \in GetLatestMetricValue(history, NextMetric, FALSE),
          draws \in TickDraws :
          LET variation == draws[NextMetric] IN
          /\ \A m \in DOMAIN tick_var : tick_var[m] = draws[m]
          /\ new_data' = new_data @@
                 (NextMetric :> NewSample(base_value, variation, now))
          /\ tick_base' = tick_base @@ (NextMetric :> base_value)
          /\ tick_var' = tick_var @@ (NextMetric :> variation)
    /\ lpc' = IF Cardinality(DOMAIN new_data) + 1 = Len(BroadcastMetrics)
              THEN "assign" ELSE "generate"
    /\ UNCHANGED <<connected_clients, real_time_data, analytics_room,
                   metric_rooms, cpc, inbox, history, now, ticks, probe,
                   users, reg, starts>>

\* line 209: sqlite3 raises in get_latest_metric_value; nothing catches it and
\* the thread ends
LoopReadFails ==
    /\ lpc = "generate"
    /\ lpc' = "dead"
    /\ UNCHANGED <<connected_clients, real_time_data, analytics_room,
                   metric_rooms, cpc, inbox, new_data, tick_base, tick_var,
                   history, now, ticks, probe,
                   users, reg, starts>>

\* line 220
LoopAssign ==
    /\ lpc = "assign"
    /\ real_time_data' = new_data
    /\ lpc' = StepAfter("assign")
    /\ UNCHANGED <<connected_clients, analytics_room, metric_rooms, cpc, inbox,
                   new_data, tick_base, tick_var, history, now, ticks, probe,
                   users, reg, starts>>

\* a mutant of EmitTargets: the emit goes to every sid ever registered, not to
\* the room
EmitTargetsEveryone == {c \in Clients : cpc[c] # "new"}

\* the sids socketio.emit(..., room='analytics') delivers to
EmitTargets == analytics_room

\* line 221
LoopEmit ==
    /\ lpc = "emit"
    /\ inbox' = [c \in Clients |->
                    IF c \in EmitTargets THEN Append(inbox[c], new_data)
                    ELSE inbox[c]]
    /\ lpc' = StepAfter("emit")
    /\ UNCHANGED <<connected_clients, real_time_data, analytics_room,
                   metric_rooms, cpc, new_data, tick_base, tick_var, history,
                   now, ticks, probe,
                   users, reg, starts>>

\* a mutant of AppendRows: the rows replace the table's (INSERT OR REPLACE on
\* a table emptied first)
AppendRowsReplacing(h, rows) == rows

\* lines 261-267: the table after the INSERTs of store_real_time_data and
\* their commit
AppendRows(h, rows) == h \o rows

\* line 224: store_real_time_data commits all its rows
LoopStore ==
    /\ lpc = "store"
    /\ history' = AppendRows(history, StoreRows(new_data))
    /\ lpc' = StepAfter("store")
    /\ UNCHANGED <<connected_clients, real_time_data, analytics_room,
                   metric_rooms, cpc, inbox, new_data, tick_base, tick_var,
                   now, ticks, probe,
                   users, reg, starts>>

\* line 224: sqlite3 raises in store_real_time_data before its commit; no row is
\* kept, nothing catches the exception and the thread ends
LoopStoreFails ==
    /\ lpc = "store"
    /\ lpc' = "dead"
    /\ UNCHANGED <<connected_clients, real_time_data, analytics_room,
                   metric_rooms, cpc, inbox, new_data, tick_base, tick_var,
                   history, now, ticks, probe,
                   users, reg, starts>>

\* line 226: time.sleep(REFRESH_INTERVAL); with the work of the iteration a
\* little over the interval has passed when the next one starts
LoopSleep ==
    /\ lpc = "sleep"
    /\ now' = now + 2 * REFRESH_INTERVAL + 1
    /\ lpc' = "check"
    /\ UNCHANGED <<connected_clients, real_time_data, analytics_room,
                   metric_rooms, cpc, inbox, new_data, tick_base, tick_var,
                   history, ticks, probe,
                   users, reg, starts>>

-----------------------------------------------------------------------------
(* The socket handlers.  Each runs in a thread of its own, so its statements *)
(* interleave with the broadcaster's and with other sids' handlers.         *)

\* line 650, for the next sid not yet handed out
ConnectAdd(c) ==
    /\ cpc[c] = "new"
    /\ \A i, j \in 1 .. Len(Sids) : i < j /\ Sids[j] = c => cpc[Sids[i]] # "new"
    /\ connected_clients' = connected_clients \cup {c}
    /\ cpc' = [cpc EXCEPT ![c] = "connect_join"]
    /\ UNCHANGED <<real_time_data, analytics_room, metric_rooms, inbox, lpc,
                   new_data, tick_base, tick_var, history, now, ticks, probe,
                   users, reg, starts>>

\* lines 651-652: join_room, and connection_status to the sid
ConnectJoin(c) ==
    /\ cpc[c] = "connect_join"
    /\ analytics_room' = analytics_room \cup {c}
    /\ cpc' = [cpc EXCEPT ![c] = "connect_data"]
    /\ UNCHANGED <<connected_clients, real_time_data, metric_rooms, inbox, lpc,
                   new_data, tick_base, tick_var, history, now, ticks, probe,
                   users, reg, starts>>

\* a mutant of ConnectData: the snapshot is sent without the test of line 655
ConnectDataUnconditional(c) ==
    /\ cpc[c] = "connect_data"
    /\ inbox' = [inbox EXCEPT ![c] = Append(@, real_time_data)]
    /\ cpc' = [cpc EXCEPT ![c] = "ready"]
    /\ UNCHANGED <<connected_clients, real_time_data, analytics_room,
                   metric_rooms, lpc, new_data, tick_base, tick_var, history,
                   now, ticks, probe,
                   users, reg, starts>>

\* lines 655-656
ConnectData(c) ==
    /\ cpc[c] = "connect_data"
    /\ inbox' = IF DOMAIN real_time_data # {}
                THEN [inbox EXCEPT ![c] = Append(@, real_time_data)]
                ELSE inbox
    /\ cpc' = [cpc EXCEPT ![c] = "ready"]
    /\ UNCHANGED <<connected_clients, real_time_data, analytics_room,
                   metric_rooms, lpc, new_data, tick_base, tick_var, history,
                   now, ticks, probe,
                   users, reg, starts>>

\* the values of data.get('metric') tried; "" stands for a missing or empty one
SubscribeInputs == {"revenue", ""}

\* lines 667-674: handle_metric_subscription
HandleMetricSubscription(c, metric_name) ==
    /\ cpc[c] = "ready"
    /\ metric_rooms' = IF metric_name # ""
                       THEN [metric_rooms EXCEPT ![c] = @ \cup {metric_name}]
                       ELSE metric_rooms
    /\ UNCHANGED <<connected_clients, real_time_data, analytics_room, cpc,
                   inbox, lpc, new_data, tick_base, tick_var, history, now,
                   ticks, probe,
                   users, reg, starts>>

\* a mutant of LeaveRoom: the sid stays in the room
LeaveRoomKept(room, c) == room

\* leave_room: the members of a room after sid c left it
LeaveRoom(room, c) == room \ {c}

\* line 661
DisconnectDiscard(c) ==
    /\ cpc[c] = "ready"
    /\ connected_clients' = connected_clients \ {c}
    /\ cpc' = [cpc EXCEPT ![c] = "disconnect_leave"]
    /\ UNCHANGED <<real_time_data, analytics_room, metric_rooms, inbox, lpc,
                   new_data, tick_base, tick_var, history, now, ticks, probe,
                   users, reg, starts>>

\* line 662; the handler returns and the connection is closed
DisconnectLeave(c) ==
    /\ cpc[c] = "disconnect_leave"
    /\ analytics_room' = LeaveRoom(analytics_room, c)
    /\ cpc' = [cpc EXCEPT ![c] = "gone"]
    /\ inbox' = [inbox EXCEPT ![c] = <<>>]
    /\ UNCHANGED <<connected_clients, real_time_data, metric_rooms, lpc,
                   new_data, tick_base, tick_var, history, now, ticks, probe,
                   users, reg, starts>>

-----------------------------------------------------------------------------
(* The process of src/app.py *)

NoProbe == [op |-> "none"]

\* calls of register that may be in flight together
MaxRequests == 2

Requests == 1 .. MaxRequests

\* a request that has not been made
NoCall == [pc |-> "new"]

\* lines 83-89: the row of the default admin user
AdminUser ==
    [id |-> 1, username |-> "admin", email |-> "admin@analytics.com",
     role |-> "admin"]

\* the instant the process starts
StartInstant == 8 * Day

\* after init_database and the start of the thread (lines 678-682)
Init ==
    /\ connected_clients = {}
    /\ real_time_data = EmptyDict
    /\ analytics_room = {}
    /\ metric_rooms = [c \in Clients |-> {}]
    /\ cpc = [c \in Clients |-> "new"]
    /\ inbox = [c \in Clients |-> <<>>]
    /\ lpc = "check"
    /\ new_data = EmptyDict
    /\ tick_base = EmptyDict
    /\ tick_var = EmptyDict
    /\ now = StartInstant
    /\ ticks = 0
    /\ probe = NoProbe
    /\ users = <<AdminUser>>
    /\ reg = [r \in Requests |-> NoCall]
    /\ starts = 1
    /\ \E prior \in BOOLEAN :
          history = GenerateComprehensiveSampleData(StartInstant)
                    \o (IF prior THEN PriorRunData(StartInstant) ELSE <<>>)

Next ==
    \/ LoopCheck
    \/ LoopGenerate
    \/ LoopReadFails
    \/ LoopAssign
    \/ LoopEmit
    \/ LoopStore
    \/ LoopStoreFails
    \/ LoopSleep
    \/ \E c \in Clients : ConnectAdd(c)
    \/ \E c \in Clients : ConnectJoin(c)
    \/ \E c \in Clients : ConnectData(c)
    \/ \E c \in Clients, m \in SubscribeInputs : HandleMetricSubscription(c, m)
    \/ \E c \in Clients : DisconnectDiscard(c)
    \/ \E c \in Clients : DisconnectLeave(c)

Spec == Init /\ [][Next]_vars

\* the statements of the broadcaster thread when sqlite raises nothing
LoopRuns ==
    \/ LoopCheck
    \/ LoopGenerate
    \/ LoopAssign
    \/ LoopEmit
    \/ LoopStore
    \/ LoopSleep

\* the process when sqlite raises nothing
NextLive ==
    \/ LoopRuns
    \/ \E c \in Clients : ConnectAdd(c)
    \/ \E c \in Clients : ConnectJoin(c)
    \/ \E c \in Clients : ConnectData(c)
    \/ \E c \in Clients, m \in SubscribeInputs : HandleMetricSubscription(c, m)
    \/ \E c \in Clients : DisconnectDiscard(c)
    \/ \E c \in Clients : DisconnectLeave(c)

\* the thread of generate_real_time_data is scheduled again and again: a
\* statement of it that stays enabled is executed
SpecLive == Init /\ [][NextLive]_vars /\ WF_vars(LoopRuns)


-----------------------------------------------------------------------------
(* The stateless live endpoint of src/flask_app.py *)

\* base_values of get_live_data, in the order of its keys
LiveMetrics ==
    <<"revenue", "users", "orders", "conversion_rate", "page_views", "bounce_rate">>

LiveSet == {LiveMetrics[i] : i \in 1 .. Len(LiveMetrics)}

LiveBaseValue(metric) ==
    CASE metric = "revenue" -> 16000000
      [] metric = "users" -> 350000
      [] metric = "orders" -> 30000
      [] metric = "conversion_rate" -> 8500
      [] metric = "page_views" -> 1300000
      [] metric = "bounce_rate" -> 44000

\* the if chain of get_live_data: the variations it may draw for a metric
LiveVariation(metric, fine) ==
    CASE metric = "revenue" -> Uniform(-1000000, 2000000, fine)
      [] metric = "users" -> RandInt(-20000, 50000, fine)
      [] metric = "orders" -> RandInt(-5000, 10000, fine)
      [] metric = "conversion_rate" -> Uniform(-1000, 2000, fine)
      [] metric = "page_views" -> RandInt(-100000, 200000, fine)
      [] metric = "bounce_rate" -> Uniform(-5000, 5000, fine)
      [] OTHER -> {0}

\* the entry of live_data for one metric (formatted_value, a text, left out)
LiveSample(metric, variation, t) ==
    [value |-> Round2(Max0(LiveBaseValue(metric) + variation)),
     timestamp |-> IsoFormat(t),
     change |-> Round2(variation),
     change_percent |->
        IF LiveBaseValue(metric) # 0
        THEN PercentOf(variation, LiveBaseValue(metric)) ELSE 0]

-----------------------------------------------------------------------------
(* The generators as functions of their inputs *)

\* metric names given to the generator: the broadcast set and one name that
\* generate_realistic_variation does not know
GeneratorMetrics == BroadcastSet \cup {"bounce_rate"}

\* previous values: what the history may hold (0, rounded and unrounded values)
\* and the values the spec's examples use
BaseSamples == {0, 4, 10, 500, 1000, 2000, 50123, 100000, 16000000}

\* one iteration of the for loop of generate_real_time_data on chosen inputs
SampleCall ==
    \E metric \in GeneratorMetrics, base_value \in BaseSamples :
      \E variation \in GenerateRealisticVariation(metric, TRUE) \cup {10000} :
        /\ probe' = [op |-> "sample", metric |-> metric,
                     base_value |-> base_value, variation |-> variation,
                     out |-> NewSample(base_value, variation, now)]
        /\ UNCHANGED <<connected_clients, real_time_data, analytics_room,
                       metric_rooms, cpc, inbox, lpc, new_data, tick_base,
                       tick_var, history, now, ticks,
                       users, reg, starts>>

\* GET /api/v1/analytics/live: the draws of the six metrics, each at an end
\* of its range
GetLiveData ==
    \E draws \in [LiveSet -> BOOLEAN] :
      LET variation(m) == IF draws[m] THEN SetMin(LiveVariation(m, FALSE))
                                      ELSE SetMax(LiveVariation(m, FALSE))
      IN  /\ probe' = [op |-> "live",
                       variation |-> [m \in LiveSet |-> variation(m)],
                       out |-> [m \in LiveSet |-> LiveSample(m, variation(m), now)]]
          /\ UNCHANGED <<connected_clients, real_time_data, analytics_room,
                         metric_rooms, cpc, inbox, lpc, new_data, tick_base,
                         tick_var, history, now, ticks,
                         users, reg, starts>>

NextGen == SampleCall \/ GetLiveData

SpecGen == Init /\ [][NextGen]_vars


-----------------------------------------------------------------------------
(* The queries on the history as functions of the table's content *)

\* the greatest number of rows a history drawn row by row holds
MaxRows == 2

\* LIMIT of the query of historical_data
HistoricalLimit == 1000

\* the values of the request argument timeframe tried; "1y" is one the if
\* chain does not know
TimeframeInputs == {"1h", "24h", "7d", "30d", "1y"}

\* the values of the request argument metric tried; "" stands for none given
MetricInputs == {"", "revenue", "orders"}

\* lines 525-534: start_time of historical_data for a request made at instant t
StartTime(timeframe, t) ==
    CASE timeframe = "1h" -> t - Hour
      [] timeframe = "24h" -> t - 24 * Hour
      [] timeframe = "7d" -> t - 7 * Day
      [] timeframe = "30d" -> t - 30 * Day
      [] OTHER -> t - 24 * Hour

\* lines 536-545: the WHERE clause on row i
RowMatches(h, i, start, metric) ==
    /\ TextLeq(IsoFormat(start), h[i].timestamp)
    /\ metric # "" => h[i].metric_name = metric

\* a mutant of SortsBefore: ORDER BY timestamp ASC
SortsBeforeAscending(h, i, j, ties) ==
    \/ ~TextLeq(h[j].timestamp, h[i].timestamp)
    \/ /\ h[i].timestamp = h[j].timestamp
       /\ IF ties = "rowid" THEN i < j ELSE i > j

\* ORDER BY timestamp DESC: row i comes before row j.  SQL leaves the order of
\* rows with equal timestamps open; ties says which of two orders is taken, by
\* rowid or against it
SortsBefore(h, i, j, ties) ==
    \/ ~TextLeq(h[i].timestamp, h[j].timestamp)
    \/ /\ h[i].timestamp = h[j].timestamp
       /\ IF ties = "rowid" THEN i < j ELSE i > j

\* lines 536-561: the list data of historical_data (the text formatted of each
\* entry left out)
HistoricalData(h, timeframe, metric, t, ties) ==
    LET rows == SelectSeq([i \in 1 .. Len(h) |-> i],
                          LAMBDA i : RowMatches(h, i, StartTime(timeframe, t),
                                                metric))
        sorted == SortSeq(rows, LAMBDA i, j : SortsBefore(h, i, j, ties))
        count == IF Len(sorted) < HistoricalLimit
                 THEN Len(sorted) ELSE HistoricalLimit
    IN  [k \in 1 .. count |->
            [metric_name |-> h[sorted[k]].metric_name,
             value |-> h[sorted[k]].value,
             timestamp |-> h[sorted[k]].timestamp,
             category |-> h[sorted[k]].category]]

\* the rows a small history is drawn from: around the bounds of the timeframes
\* of a request made at StartInstant
QueryRows ==
    {[metric_name |-> m, value |-> v, timestamp |-> IsoFormat(t),
      category |-> "realtime", source |-> "live"] :
        m \in {"revenue", "orders"}, v \in {1000, 2000},
        t \in {StartInstant - 3, StartInstant - Hour, StartInstant - 24 * Hour - 1}}

\* a history of more rows than HistoricalLimit, not in the order of its
\* timestamps, all within the last hour before StartInstant
LargeHistory ==
    [k \in 1 .. HistoricalLimit + 9 |->
        [metric_name |-> IF k % 7 = 0 THEN "orders" ELSE "revenue",
         value |-> 1000 * (k % 5),
         timestamp |-> IsoFormat(StartInstant - ((k * 7) % (HistoricalLimit + 9))),
         category |-> "realtime", source |-> "live"]]

QueryHistories ==
    UNION {[1 .. n -> QueryRows] : n \in 0 .. MaxRows} \cup {LargeHistory}

InitQuery ==
    /\ connected_clients = {}
    /\ real_time_data = EmptyDict
    /\ analytics_room = {}
    /\ metric_rooms = [c \in Clients |-> {}]
    /\ cpc = [c \in Clients |-> "new"]
    /\ inbox = [c \in Clients |-> <<>>]
    /\ lpc = "check"
    /\ new_data = EmptyDict
    /\ tick_base = EmptyDict
    /\ tick_var = EmptyDict
    /\ now = StartInstant
    /\ ticks = 0
    /\ probe = NoProbe
    /\ users = <<AdminUser>>
    /\ reg = [r \in Requests |-> NoCall]
    /\ starts = 1
    /\ history \in QueryHistories

\* GET /api/v1/analytics/historical, once on the drawn history
HistoricalRequest ==
    /\ probe = NoProbe
    /\ \E timeframe \in TimeframeInputs, metric \in MetricInputs,
          ties \in {"rowid", "reverse"} :
          probe' = [op |-> "historical", timeframe |-> timeframe,
                    metric |-> metric, start |-> StartTime(timeframe, now),
                    out |-> HistoricalData(history, timeframe, metric, now, ties)]
    /\ UNCHANGED <<connected_clients, real_time_data, analytics_room,
                   metric_rooms, cpc, inbox, lpc, new_data, tick_base,
                   tick_var, history, now, ticks,
                   users, reg, starts>>

\* get_latest_metric_value, once on the drawn history
LatestCall ==
    /\ probe = NoProbe
    /\ \E metric \in BroadcastSet :
        \E value \in GetLatestMetricValue(history, metric, FALSE) :
          probe' = [op |-> "latest", metric |-> metric, out |-> value]
    /\ UNCHANGED <<connected_clients, real_time_data, analytics_room,
                   metric_rooms, cpc, inbox, lpc, new_data, tick_base,
                   tick_var, history, now, ticks,
                   users, reg, starts>>

NextQuery == HistoricalRequest \/ LatestCall

SpecQuery == InitQuery /\ [][NextQuery]_vars

-----------------------------------------------------------------------------
(* The socket handlers as operations on the registry, each run to its end   *)
(* in one step, also for a sid that is already registered or not           *)
(* registered; and the HTTP requests of src/app.py that read the live data. *)
(* probe holds the name of the last event or request; the bodies of the    *)
(* responses, which no later step reads, are left out.                     *)

\* a mutant of HandleConnect: the set is assigned, not added to
HandleConnectAssigning(c) ==
    /\ cpc[c] \in {"new", "ready"}
    /\ connected_clients' = {c}
    /\ analytics_room' = analytics_room \cup {c}
    /\ cpc' = [cpc EXCEPT ![c] = "ready"]
    /\ probe' = [op |-> "connect", sid |-> c]
    /\ UNCHANGED <<real_time_data, metric_rooms, inbox, lpc, new_data,
                   tick_base, tick_var, history, now, ticks,
                   users, reg, starts>>

\* handle_connect, lines 650-656, for a sid not yet handed out or for one
\* that is registered already
HandleConnect(c) ==
    /\ cpc[c] \in {"new", "ready"}
    /\ cpc[c] = "new" =>
          \A i, j \in 1 .. Len(Sids) : i < j /\ Sids[j] = c => cpc[Sids[i]] # "new"
    /\ connected_clients' = connected_clients \cup {c}
    /\ analytics_room' = analytics_room \cup {c}
    /\ inbox' = IF DOMAIN real_time_data # {}
                THEN [inbox EXCEPT ![c] = Append(@, real_time_data)]
                ELSE inbox
    /\ cpc' = [cpc EXCEPT ![c] = "ready"]
    /\ probe' = [op |-> "connect", sid |-> c]
    /\ UNCHANGED <<real_time_data, metric_rooms, lpc, new_data, tick_base,
                   tick_var, history, now, ticks,
                   users, reg, starts>>

\* a mutant of DiscardRaises: set.remove, which raises KeyError for a sid
\* that is not in the set
RemoveRaises(S, c) == c \notin S

\* line 661: set.discard raises for no sid
DiscardRaises(S, c) == FALSE

\* handle_disconnect, lines 661-662, for any sid, registered or not
HandleDisconnect(c) ==
    /\ IF DiscardRaises(connected_clients, c)
       THEN /\ probe' = [op |-> "disconnect", sid |-> c, raised |-> TRUE]
            /\ UNCHANGED <<connected_clients, analytics_room, cpc, inbox>>
       ELSE /\ connected_clients' = connected_clients \ {c}
            /\ analytics_room' = LeaveRoom(analytics_room, c)
            /\ cpc' = [cpc EXCEPT ![c] = IF @ = "new" THEN "new" ELSE "gone"]
            /\ inbox' = [inbox EXCEPT ![c] = <<>>]
            /\ probe' = [op |-> "disconnect", sid |-> c, raised |-> FALSE]
    /\ UNCHANGED <<real_time_data, metric_rooms, lpc, new_data, tick_base,
                   tick_var, history, now, ticks,
                   users, reg, starts>>

\* handle_metric_subscription, lines 667-674, of a connected sid
SubscribeToMetric(c, metric_name) ==
    /\ cpc[c] = "ready"
    /\ metric_rooms' = IF metric_name # ""
                       THEN [metric_rooms EXCEPT ![c] = @ \cup {metric_name}]
                       ELSE metric_rooms
    /\ probe' = [op |-> "subscribe_to_metric", sid |-> c]
    /\ UNCHANGED <<connected_clients, real_time_data, analytics_room, cpc,
                   inbox, lpc, new_data, tick_base, tick_var, history, now,
                   ticks,
                   users, reg, starts>>

\* a mutant of AfterSelect: the request also deletes the oldest row
AfterSelectTrimmed(h) == IF h = <<>> THEN h ELSE Tail(h)

\* the table after a handler that opens a connection, executes one SELECT,
\* fetches its rows and closes the connection without a commit
AfterSelect(h) == h

\* GET /api/v1/analytics/summary, lines 435-470
AnalyticsSummary ==
    /\ history' = AfterSelect(history)
    /\ probe' = [op |-> "summary", sid |-> ""]
    /\ UNCHANGED <<connected_clients, real_time_data, analytics_room,
                   metric_rooms, cpc, inbox, lpc, new_data, tick_base,
                   tick_var, now, ticks,
                   users, reg, starts>>

\* GET /api/v1/analytics/category/<category>, lines 473-504
AnalyticsByCategory ==
    /\ history' = AfterSelect(history)
    /\ probe' = [op |-> "category", sid |-> ""]
    /\ UNCHANGED <<connected_clients, real_time_data, analytics_room,
                   metric_rooms, cpc, inbox, lpc, new_data, tick_base,
                   tick_var, now, ticks,
                   users, reg, starts>>

\* GET /api/v1/analytics/realtime, lines 507-513: no statement on the table
RealtimeData ==
    /\ probe' = [op |-> "realtime", sid |-> ""]
    /\ UNCHANGED <<connected_clients, real_time_data, analytics_room,
                   metric_rooms, cpc, inbox, lpc, new_data, tick_base,
                   tick_var, history, now, ticks,
                   users, reg, starts>>

\* GET /api/v1/analytics/historical, lines 516-569
HistoricalRead ==
    /\ history' = AfterSelect(history)
    /\ probe' = [op |-> "historical", sid |-> ""]
    /\ UNCHANGED <<connected_clients, real_time_data, analytics_room,
                   metric_rooms, cpc, inbox, lpc, new_data, tick_base,
                   tick_var, now, ticks,
                   users, reg, starts>>

\* the registry operations, and the broadcaster thread up to its gate: what a
\* tick does behind an open gate is in Spec
NextRegistry ==
    \/ \E c \in Clients : HandleConnect(c)
    \/ \E c \in Clients : HandleDisconnect(c)
    \/ \E c \in Clients, m \in SubscribeInputs : SubscribeToMetric(c, m)
    \/ LoopCheck
    \/ LoopSleep

SpecRegistry == Init /\ [][NextRegistry]_vars

\* a request of src/app.py that reads the live data
RequestStep ==
    \/ AnalyticsSummary
    \/ AnalyticsByCategory
    \/ RealtimeData
    \/ HistoricalRead

\* the broadcaster thread, the socket handlers statement by statement, and the
\* requests
NextServer == Next \/ RequestStep

SpecServer == Init /\ [][NextServer]_vars

-----------------------------------------------------------------------------
(* The login of the FastAPI variant: src/app/api/api_v1/endpoints/auth.py *)

\* lines 56-59
demo_users ==
    [user |-> [password |-> "user123", role |-> "user"],
     analyst |-> [password |-> "analyst123", role |-> "analyst"]]

\* app.core.security.create_access_token: a signed token for the subject
create_access_token(sub) == <<"jwt", sub>>

\* lines 45-53 and 76-84: the body of a successful login
LoginSuccessful(sub, user_data) ==
    [status |-> 200,
     success |-> TRUE,
     message |-> "Login successful",
     access_token |-> create_access_token(sub),
     token_type |-> "bearer",
     user |-> user_data]

\* a mutant of login: a demo user's password is not compared
loginAnyPassword(username, password) ==
    IF username \in {"admin"} \cup DOMAIN demo_users
    THEN LoginSuccessful(username,
            [id |-> CASE username = "admin" -> 1
                      [] username = "user" -> 2
                      [] OTHER -> 3,
             username |-> username,
             email |-> <<username, "@analytics.com">>,
             role |-> IF username = "admin" THEN "admin"
                      ELSE demo_users[username].role])
    ELSE [status |-> 401, detail |-> "Incorrect username or password"]

\* lines 30-91: the response to POST /login with the form's two fields
login(username, password) ==
    IF username = "admin" /\ password = "admin123"
    THEN LoginSuccessful("admin",
            [id |-> 1,
             username |-> "admin",
             email |-> <<"admin", "@analytics.com">>,
             role |-> "admin"])
    ELSE IF /\ username \in DOMAIN demo_users
            /\ password = demo_users[username].password
         THEN LoginSuccessful(username,
                 [id |-> IF username = "user" THEN 2 ELSE 3,
                  username |-> username,
                  email |-> <<username, "@analytics.com">>,
                  role |-> demo_users[username].role])
         ELSE [status |-> 401, detail |-> "Incorrect username or password"]

\* the usernames tried: the three demo names, and names near them
UsernameInputs ==
    {"admin", "user", "analyst", "", "Admin", "admin ", "root", "guest",
     "admin123", "users"}

\* the passwords tried: the three demo passwords, and texts near them
PasswordInputs ==
    {"admin123", "user123", "analyst123", "", "admin", "user", "analyst",
     "ADMIN123", "admin1234", "password"}

\* POST /login
LoginRequest ==
    /\ \E username \in UsernameInputs, password \in PasswordInputs :
          probe' = [op |-> "login", username |-> username,
                    password |-> password, out |-> login(username, password)]
    /\ UNCHANGED <<connected_clients, real_time_data, analytics_room,
                   metric_rooms, cpc, inbox, lpc, new_data, tick_base,
                   tick_var, history, now, ticks,
                   users, reg, starts>>

NextLogin == LoginRequest

SpecLogin == Init /\ [][NextLogin]_vars

-----------------------------------------------------------------------------
(* The accounts of src/app.py: register on table users *)

\* the JSON bodies tried: a new user, the same username or the same email
\* again, the default admin's username or email, and a body without username
RegisterInputs ==
    {[username |-> "ann", email |-> "ann@x.org", password |-> "pw"],
     [username |-> "ann", email |-> "bob@x.org", password |-> "pw"],
     [username |-> "bob", email |-> "ann@x.org", password |-> "pw"],
     [username |-> "bob", email |-> "bob@x.org", password |-> "pw"],
     [username |-> "admin", email |-> "new@x.org", password |-> "pw"],
     [username |-> "eve", email |-> "admin@analytics.com", password |-> "pw"],
     [username |-> "", email |-> "cat@x.org", password |-> "pw"]}

\* lines 347-348: some row has the username or the email
UserExists(u, data) ==
    \E i \in DOMAIN u :
       u[i].username = data.username \/ u[i].email = data.email

\* a mutant of UniqueViolated: table users without its UNIQUE constraints
UniqueNotEnforced(u, data) == FALSE

\* lines 45-46: username TEXT UNIQUE, email TEXT UNIQUE; the INSERT of a row
\* that repeats either raises sqlite3.IntegrityError
UniqueViolated(u, data) ==
    \E i \in DOMAIN u :
       u[i].username = data.username \/ u[i].email = data.email

\* id INTEGER PRIMARY KEY AUTOINCREMENT on a table no row is deleted from
NextUserId(u) == Len(u) + 1

\* lines 157-165
create_token(user_data) ==
    <<"jwt", user_data.id, user_data.username, user_data.role>>

\* lines 338-350: the check of the body and the SELECT; the call returns 400 or
\* goes on to its INSERT
RegisterSelect(r) ==
    /\ reg[r].pc = "new"
    /\ \E data \in RegisterInputs :
          reg' = [reg EXCEPT ![r] =
                    IF data.username = "" \/ data.password = "" \/ data.email = ""
                    THEN [pc |-> "done", data |-> data,
                          out |-> [status |-> 400,
                                   error |-> "Username, email, and password required"]]
                    ELSE IF UserExists(users, data)
                    THEN [pc |-> "done", data |-> data,
                          out |-> [status |-> 400,
                                   error |-> "Username or email already exists"]]
                    ELSE [pc |-> "insert", data |-> data]]
    /\ UNCHANGED <<connected_clients, real_time_data, analytics_room,
                   metric_rooms, cpc, inbox, lpc, new_data, tick_base,
                   tick_var, history, now, ticks, probe, users, starts>>

\* lines 353-377: the INSERT and its commit, which SQLite serializes among the
\* connections, then the token; an IntegrityError is caught by nothing in
\* register and Flask answers 500
RegisterInsert(r) ==
    /\ reg[r].pc = "insert"
    /\ LET data == reg[r].data
           user_data == [id |-> NextUserId(users), username |-> data.username,
                         role |-> "user"]
       IN  IF UniqueViolated(users, data)
           THEN /\ users' = users
                /\ reg' = [reg EXCEPT ![r] =
                             [pc |-> "done", data |-> data,
                              out |-> [status |-> 500]]]
           ELSE /\ users' = Append(users,
                                   [id |-> user_data.id,
                                    username |-> data.username,
                                    email |-> data.email,
                                    role |-> "user"])
                /\ reg' = [reg EXCEPT ![r] =
                             [pc |-> "done", data |-> data,
                              out |-> [status |-> 201,
                                       token |-> create_token(user_data),
                                       user |-> user_data]]]
    /\ UNCHANGED <<connected_clients, real_time_data, analytics_room,
                   metric_rooms, cpc, inbox, lpc, new_data, tick_base,
                   tick_var, history, now, ticks, probe, starts>>

NextRegister ==
    \/ \E r \in Requests : RegisterSelect(r)
    \/ \E r \in Requests : RegisterInsert(r)

SpecRegister == Init /\ [][NextRegister]_vars

-----------------------------------------------------------------------------
(* The initialization of analytics.db.  src/app.py, src/flask_app.py and    *)
(* src/simple_main.py open the same relative path and each initializes the  *)
(* database when its process starts.                                        *)

\* process starts followed
MaxStarts == 4

\* a row of the literal sample data: value in thousandths, timestamp
\* "2024-01-15T<hour>:00:00" written as the instants of this model write it
SampleRow(metric_name, value, hour) ==
    [metric_name |-> metric_name, value |-> value,
     timestamp |-> IsoFormat(hour * Hour)]

\* src/flask_app.py lines 42-63
FlaskSampleData ==
    <<SampleRow("revenue", 15420500, 10), SampleRow("users", 342000, 10),
      SampleRow("orders", 28000, 10), SampleRow("conversion_rate", 8200, 10),
      SampleRow("page_views", 1250000, 10), SampleRow("bounce_rate", 45300, 10),
      SampleRow("revenue", 16200250, 11), SampleRow("users", 367000, 11),
      SampleRow("orders", 31000, 11), SampleRow("conversion_rate", 8400, 11),
      SampleRow("page_views", 1380000, 11), SampleRow("bounce_rate", 43100, 11),
      SampleRow("revenue", 17100750, 12), SampleRow("users", 389000, 12),
      SampleRow("orders", 35000, 12), SampleRow("conversion_rate", 9000, 12),
      SampleRow("page_views", 1420000, 12), SampleRow("bounce_rate", 41800, 12)>>

\* src/simple_main.py lines 46-55
SimpleSampleData ==
    <<SampleRow("revenue", 15420500, 10), SampleRow("users", 342000, 10),
      SampleRow("orders", 28000, 10), SampleRow("conversion_rate", 8200, 10),
      SampleRow("revenue", 16200250, 11), SampleRow("users", 367000, 11),
      SampleRow("orders", 31000, 11), SampleRow("conversion_rate", 8400, 11)>>

\* a mutant of TableEmpty: the count is not looked at
TableEmptyAlways(h) == TRUE

\* src/app.py lines 92-93, src/flask_app.py lines 37-40: SELECT COUNT(*) is 0
TableEmpty(h) == Len(h) = 0

\* src/app.py lines 83-84: no row of users has the username 'admin'
NoAdmin(u) == \A i \in DOMAIN u : u[i].username # "admin"

\* a mutant of Conflicts: as if a unique key covered metric_name and timestamp
ConflictsByNameAndTime(old, row) ==
    old.metric_name = row.metric_name /\ old.timestamp = row.timestamp

\* a stored row and a new row collide on a unique key: never, the only unique
\* key of analytics_data is id, which the INSERT leaves to AUTOINCREMENT
Conflicts(old, row) == FALSE

\* INSERT OR REPLACE of one row: the rows it collides with are deleted, the row
\* is added
InsertOrReplace(h, row) ==
    Append(SelectSeq(h, LAMBDA old : ~Conflicts(old, row)), row)

RECURSIVE InsertAllOrReplace(_, _)
\* src/simple_main.py lines 57-60: executemany over the sample rows
InsertAllOrReplace(h, rows) ==
    IF rows = <<>> THEN h
    ELSE InsertAllOrReplace(InsertOrReplace(h, Head(rows)), Tail(rows))

\* the time between one start and the next
StartGaps == {Hour, Day}

\* the mark a start leaves: the variant that ran, and whether every start
\* since the database file was created ran init_db of src/simple_main.py
StartMark(variant) ==
    [op |-> "start", variant |-> variant,
     only_simple |-> /\ variant = "simple_main"
                     /\ \/ starts = 0
                        \/ probe.op = "start" /\ probe.only_simple]

\* src/app.py lines 36-102, run at the start of its process (line 678)
init_database ==
    /\ starts < MaxStarts
    /\ users' = IF NoAdmin(users)
                THEN Append(users, [AdminUser EXCEPT !.id = NextUserId(users)])
                ELSE users
    /\ history' = IF TableEmpty(history)
                  THEN GenerateComprehensiveSampleData(now)
                  ELSE history
    /\ probe' = StartMark("app")
    /\ starts' = starts + 1
    /\ \E gap \in StartGaps : now' = now + gap
    /\ UNCHANGED <<connected_clients, real_time_data, analytics_room,
                   metric_rooms, cpc, inbox, lpc, new_data, tick_base,
                   tick_var, ticks, reg>>

\* src/flask_app.py lines 20-73, run at the start of its process (line 301)
FlaskInitDb ==
    /\ starts < MaxStarts
    /\ history' = IF TableEmpty(history) THEN FlaskSampleData ELSE history
    /\ probe' = StartMark("flask_app")
    /\ starts' = starts + 1
    /\ \E gap \in StartGaps : now' = now + gap
    /\ UNCHANGED <<connected_clients, real_time_data, analytics_room,
                   metric_rooms, cpc, inbox, lpc, new_data, tick_base,
                   tick_var, ticks, users, reg>>

\* src/simple_main.py lines 29-62, run when the module is loaded (line 65)
SimpleInitDb ==
    /\ starts < MaxStarts
    /\ history' = InsertAllOrReplace(history, SimpleSampleData)
    /\ probe' = StartMark("simple_main")
    /\ starts' = starts + 1
    /\ \E gap \in StartGaps : now' = now + gap
    /\ UNCHANGED <<connected_clients, real_time_data, analytics_room,
                   metric_rooms, cpc, inbox, lpc, new_data, tick_base,
                   tick_var, ticks, users, reg>>

\* before any start there is no file; or the file is the one an earlier
\* process of src/app.py left, with a registered user and stored samples
InitDb ==
    /\ connected_clients = {}
    /\ real_time_data = EmptyDict
    /\ analytics_room = {}
    /\ metric_rooms = [c \in Clients |-> {}]
    /\ cpc = [c \in Clients |-> "new"]
    /\ inbox = [c \in Clients |-> <<>>]
    /\ lpc = "check"
    /\ new_data = EmptyDict
    /\ tick_base = EmptyDict
    /\ tick_var = EmptyDict
    /\ now = StartInstant
    /\ ticks = 0
    /\ probe = NoProbe
    /\ reg = [r \in Requests |-> NoCall]
    /\ \/ /\ users = <<>>
          /\ history = <<>>
          /\ starts = 0
       \/ /\ users = <<AdminUser,
                       [id |-> 2, username |-> "ann", email |-> "ann@x.org",
                        role |-> "user"]>>
          /\ history = GenerateComprehensiveSampleData(StartInstant - Day)
                       \o PriorRunData(StartInstant)
          /\ starts = 1

NextDb == init_database \/ FlaskInitDb \/ SimpleInitDb

SpecDb == InitDb /\ [][NextDb]_vars

-----------------------------------------------------------------------------
(* Claims about the generators, checked under SpecGen *)

\* C1: for every metric, previous value and variation, the value of the entry a
\* tick builds is >= 0, and so is every value GET /api/v1/analytics/live returns
C1_ValueNonNegative ==
    /\ probe.op = "sample" => probe.out.value >= 0
    /\ probe.op = "live" => \A m \in LiveSet : probe.out[m].value >= 0

\* C1 witness: a call whose previous value plus variation is negative and whose
\* value was clamped to 0
C1_Witness ==
    /\ probe.op = "sample"
    /\ probe.base_value + probe.variation < 0
    /\ probe.out.value = 0

\* C2 as claimed: change_percent is 0 exactly when the previous value is 0
C2_ZeroExactlyAtZeroBase ==
    probe.op = "sample" =>
        (probe.out.change_percent = 0 <=> probe.base_value = 0)

\* C2 amended: change_percent is 0 when the previous value is 0, and when the
\* variation is 0 or in size less than 0.005 percent of the previous value; it
\* is not 0 when the previous value is not 0 and the variation is in size more
\* than 0.005 percent of it
C2_ZeroAtZeroBaseOrSmallVariation ==
    probe.op = "sample" =>
        LET b == probe.base_value
            v == Abs(probe.variation)
            pct == probe.out.change_percent
        IN  /\ b = 0 => pct = 0
            /\ v = 0 => pct = 0
            \* v / b * 100 < 0.005, that is 20000 * v < b
            /\ b > 0 /\ v <= (b - 1) \div 20000 => pct = 0
            \* v / b * 100 > 0.005, that is 20000 * v > b
            /\ b > 0 /\ v > b \div 20000 => pct # 0

\* C2 witness: a call with a previous value that is not 0, a variation that is
\* not 0, and a change_percent of 0
C2_Witness ==
    /\ probe.op = "sample"
    /\ probe.base_value # 0
    /\ probe.variation # 0
    /\ probe.out.change_percent = 0


-----------------------------------------------------------------------------
(* Claims about the broadcaster and the registry, checked under Spec *)

Last(q) == q[Len(q)]

\* the broadcaster moves in this step
LoopSteps == lpc' # lpc

\* the last active tick ran to its end, the store included, and the thread is
\* in its sleep
TickCompleted ==
    /\ lpc = "sleep"
    /\ DOMAIN new_data = BroadcastSet
    /\ real_time_data = new_data

\* the rows of h that a tick stored at the instant of sample
RowsOf(h, sample) ==
    {i \in DOMAIN h : h[i].source = "live" /\ h[i].timestamp = sample.timestamp}

\* C3 as claimed: an emit delivers the tick's samples to every connected sid
\* that never subscribed, and a sid subscribed to "revenue" alone is delivered
\* no sample of another name
C3_SubscriberGetsOnlyRevenue ==
    [][\A c \in Clients :
          /\ (lpc = "emit" /\ LoopSteps /\ cpc[c] = "ready" /\ metric_rooms[c] = {})
                => inbox'[c] = Append(inbox[c], new_data)
          /\ (metric_rooms[c] = {"revenue"} /\ Len(inbox'[c]) > Len(inbox[c]))
                => DOMAIN Last(inbox'[c]) \subseteq {"revenue"}]_vars

\* C4: once handle_disconnect has returned for a sid, no step delivers an
\* analytics_update to it
C4_NoDeliveryAfterDisconnect ==
    [][\A c \in Clients : cpc[c] = "gone" => inbox'[c] = inbox[c]]_vars

\* C4 witness: a tick is about to emit while one sid has disconnected and
\* another is in the room
C4_Witness ==
    /\ lpc = "emit"
    /\ \E c, d \in Clients : cpc[c] = "gone" /\ cpc[d] = "ready" /\ d \in EmitTargets

\* C5: a tick whose gate finds connected_clients empty goes straight to its
\* sleep and back, reading no previous value, delivering nothing, storing no
\* row and leaving real_time_data as it was
C5_IdleTickNoWork ==
    [][/\ (lpc = "check" /\ connected_clients = {} /\ LoopSteps)
            => /\ lpc' = "sleep"
               /\ UNCHANGED <<history, real_time_data, inbox, new_data,
                              tick_base, tick_var>>
       /\ (lpc = "sleep" /\ LoopSteps)
            => /\ lpc' = "check"
               /\ UNCHANGED <<history, real_time_data, inbox, new_data,
                              tick_base, tick_var>>]_vars

\* C5 witness: the first tick found no sid and is in its sleep
C5_Witness ==
    /\ lpc = "sleep"
    /\ ticks = 1
    /\ DOMAIN real_time_data = {}
    /\ DOMAIN tick_base = {}

\* C6: a tick whose gate finds a sid generates one sample for each broadcast
\* metric, emits them all to the room, and, when sqlite raises no error, stores
\* exactly one row per metric, with the sample's value
C6_ActiveTickOneSamplePerMetric ==
    [][/\ (lpc = "check" /\ connected_clients # {} /\ LoopSteps)
            => lpc' = "generate"
       /\ (lpc = "generate" /\ lpc' \notin {"generate", "dead"})
            => DOMAIN new_data' = BroadcastSet
       /\ (lpc = "emit" /\ LoopSteps)
            => /\ DOMAIN new_data = BroadcastSet
               /\ \A c \in analytics_room :
                     inbox'[c] = Append(inbox[c], new_data)
       /\ (lpc = "store" /\ lpc' \notin {"store", "dead"})
            => /\ Len(history') = Len(history) + Cardinality(BroadcastSet)
               /\ SubSeq(history', 1, Len(history)) = history
               /\ \A m \in BroadcastSet :
                     \E i \in (Len(history) + 1) .. Len(history') :
                        /\ history'[i].metric_name = m
                        /\ history'[i].value = new_data[m].value
                        /\ \A j \in (Len(history) + 1) .. Len(history') :
                              history'[j].metric_name = m => j = i]_vars

\* C6 witness: the first tick was active and stored its five rows
C6_Witness ==
    /\ TickCompleted
    /\ ticks = 1
    /\ Cardinality(RowsOf(history, new_data["revenue"])) = Cardinality(BroadcastSet)

\* C7 as claimed: after a completed active tick, for each metric the value last
\* delivered to a connected sid, the value in real_time_data and the latest
\* value of the history are the same, and equal previous value plus variation
C7_SameValueEqualSum ==
    TickCompleted =>
        \A m \in BroadcastSet :
            /\ \A c \in Clients : cpc[c] = "ready" =>
                   /\ inbox[c] # <<>>
                   /\ Last(inbox[c])[m].value = real_time_data[m].value
            /\ GetLatestMetricValue(history, m, FALSE) = {real_time_data[m].value}
            /\ real_time_data[m].value = tick_base[m] + tick_var[m]

\* C7 amended: ... the same, and equal max(0, previous value + variation)
\* rounded to two decimals: previous 100 and variation +10 give value 110,
\* change 10 and change_percent 10
C7_SameValueEqualClampedSum ==
    /\ TickCompleted =>
        \A m \in BroadcastSet :
            LET sum == tick_base[m] + tick_var[m]
                v == real_time_data[m].value
            IN  /\ \A c \in Clients : cpc[c] = "ready" =>
                       /\ inbox[c] # <<>>
                       /\ Last(inbox[c])[m].value = v
                /\ GetLatestMetricValue(history, m, FALSE) = {v}
                /\ v % 10 = 0
                /\ sum < 0 => v = 0
                /\ sum >= 0 => Abs(v - sum) <= 5
    /\ LET e == NewSample(100000, 10000, now)
       IN  e.value = 110000 /\ e.change = 10000 /\ e.change_percent = 1000

\* C7 witness: a completed active tick with a connected sid in which a previous
\* value plus its variation was negative
C7_Witness ==
    /\ TickCompleted
    /\ \E c \in Clients : cpc[c] = "ready" /\ inbox[c] # <<>>
    /\ \E m \in BroadcastSet : tick_base[m] + tick_var[m] < 0

\* C10: when store_real_time_data fails, every sid whose connect handler has
\* returned and that is still in the room has already been delivered the
\* tick's samples, and no row is stored
C10_StoreFailureAfterFanOut ==
    [][(lpc = "store" /\ lpc' = "dead")
          => /\ history' = history
             /\ \A c \in Clients :
                   cpc[c] \in {"ready", "disconnect_leave"}
                      => /\ inbox[c] # <<>>
                         /\ Last(inbox[c]) = new_data]_vars

\* C10 witness: the store of a tick failed, a connected sid holds the tick's
\* samples and the history holds none of them
C10_Witness ==
    /\ lpc = "dead"
    /\ DOMAIN new_data = BroadcastSet
    /\ \E c \in Clients :
          cpc[c] = "ready" /\ inbox[c] # <<>> /\ Last(inbox[c]) = new_data
    /\ RowsOf(history, new_data["revenue"]) = {}

\* C11 as claimed: a failure of the history store, in the read of a previous
\* value or in the append, never halts the broadcaster thread
C11_StoreFailureNeverHaltsLoop == lpc # "dead"

\* C13: whatever the interleaving of the handlers' statements with the tick's,
\* an emit delivers only to sids that have joined the room and whose
\* disconnect handler has not returned, and no other step delivers to a sid
\* whose disconnect handler has returned
C13_EmitOnlyBeforeDisconnectReturns ==
    [][\A c \in Clients :
          /\ (lpc = "emit" /\ LoopSteps /\ Len(inbox'[c]) > Len(inbox[c]))
                => cpc[c] \in {"connect_data", "ready", "disconnect_leave"}
          /\ (cpc[c] = "gone" \/ cpc'[c] = "gone")
                => Len(inbox'[c]) <= Len(inbox[c])]_vars

\* C13 witness: an emit has just delivered the tick's samples to a sid that
\* is between the two statements of its disconnect handler, while the
\* disconnect handler of another sid had returned
C13_Witness ==
    /\ lpc = "store"
    /\ \E c, d \in Clients :
          /\ cpc[c] = "disconnect_leave"
          /\ c \notin connected_clients
          /\ inbox[c] # <<>>
          /\ Last(inbox[c]) = new_data
          /\ cpc[d] = "gone"

-----------------------------------------------------------------------------
(* Liveness of the broadcaster, checked under SpecLive *)

\* C20: whenever the thread is in its sleep with a sid connected (and the
\* model's bound on the ticks not reached), the sid later disconnects or is
\* delivered the samples of a later tick; so a sid that stays connected is
\* delivered the samples of one tick after another
C20_ConnectedSidKeepsReceiving ==
    \A c \in Clients :
        (lpc = "sleep" /\ ticks < MaxTicks /\ cpc[c] = "ready")
           ~> \/ cpc[c] # "ready"
              \/ /\ lpc = "store"
                 /\ inbox[c] # <<>>
                 /\ Last(inbox[c]) = new_data

\* C20 witness: a connected sid has been delivered the samples of two ticks
C20_Witness ==
    /\ ticks = 2
    /\ lpc = "store"
    /\ \E c \in Clients :
          /\ cpc[c] = "ready"
          /\ Len(inbox[c]) >= 2
          /\ Last(inbox[c]) = new_data
          /\ inbox[c][Len(inbox[c]) - 1]["revenue"].timestamp
                # new_data["revenue"].timestamp

-----------------------------------------------------------------------------
(* Claims about the writers of the live data, checked under SpecServer *)

\* C17: no step of a tick, a socket handler or a request changes or removes a
\* row of analytics_data: the table after a step is the table before it with
\* rows added behind
C17_HistoryAppendOnly ==
    [][/\ Len(history') >= Len(history)
       /\ SubSeq(history', 1, Len(history)) = history]_vars

\* C17 witness: two ticks have stored rows, a sid has disconnected and a
\* request was served
C17_Witness ==
    /\ ticks = 2
    /\ lpc = "sleep"
    /\ Len(history) >= 2 * Cardinality(BroadcastSet)
              + Len(GenerateComprehensiveSampleData(StartInstant))
    /\ probe.op \in {"summary", "category", "historical"}
    /\ \E c \in Clients : cpc[c] = "gone"

\* a step of a socket handler
SocketStep ==
    \E c \in Clients :
       \/ ConnectAdd(c)
       \/ ConnectJoin(c)
       \/ ConnectData(c)
       \/ DisconnectDiscard(c)
       \/ DisconnectLeave(c)
       \/ \E m \in SubscribeInputs : HandleMetricSubscription(c, m)

\* C19: the requests summary, category, realtime and historical and the
\* handlers of connect, disconnect and subscribe_to_metric leave
\* analytics_data and real_time_data as they are; every step that changes
\* one of them is a step of the broadcaster thread
C19_OnlyLoopWritesLiveData ==
    [][/\ (RequestStep \/ SocketStep) => UNCHANGED <<history, real_time_data>>
       /\ (history' # history \/ real_time_data' # real_time_data)
             => lpc \in {"assign", "store"} /\ LoopSteps]_vars

\* C19 witness: a request was served after a tick had stored its rows, with
\* one sid subscribed and another disconnected
C19_Witness ==
    /\ probe.op \in {"summary", "category", "realtime", "historical"}
    /\ DOMAIN real_time_data = BroadcastSet
    /\ Len(history) > Len(GenerateComprehensiveSampleData(StartInstant))
    /\ \E c, d \in Clients :
          /\ cpc[c] = "ready" /\ metric_rooms[c] = {"revenue"}
          /\ cpc[d] = "gone"

-----------------------------------------------------------------------------
(* Claims about the registry operations, checked under SpecRegistry *)

\* what the registry holds: the set of sids, the room and the metric rooms
registry == <<connected_clients, analytics_room, metric_rooms>>

\* C14: handle_connect registers the sid and puts it in the room; run for a
\* sid that is registered already it leaves the registry as it was, and a
\* sid connected for the first time is in no metric room
C14_ConnectIdempotent ==
    [][\A c \in Clients :
          HandleConnect(c) =>
             /\ c \in connected_clients'
             /\ c \in analytics_room'
             /\ cpc[c] = "ready" => UNCHANGED registry
             /\ cpc[c] = "new" => metric_rooms'[c] = {}]_vars

\* C14 witness: the last event was a connect of a sid that had subscribed to
\* a metric before, so that was registered already, while another sid is
\* registered
C14_Witness ==
    /\ probe = [op |-> "connect", sid |-> "sid_a"]
    /\ metric_rooms["sid_a"] = {"revenue"}
    /\ connected_clients = {"sid_a", "sid_b"}

\* C15: handle_disconnect raises for no sid; for a sid that is not registered
\* it leaves the registry as it was, so a second disconnect changes nothing
\* after the first; and a tick that finds no sid registered goes to its sleep
C15_DisconnectIdempotentTotal ==
    [][/\ \A c \in Clients :
             HandleDisconnect(c) =>
                /\ probe'.raised = FALSE
                /\ c \notin connected_clients'
                /\ c \notin analytics_room'
                /\ (c \notin connected_clients /\ c \notin analytics_room)
                      => UNCHANGED registry
       /\ (lpc = "check" /\ connected_clients = {} /\ LoopSteps)
             => lpc' = "sleep"]_vars

\* C15 witness: the last event was the disconnect of a sid that was never
\* connected, beside a registered one, in a run in which a tick found no sid
\* registered and went to its sleep
C15_Witness ==
    /\ probe = [op |-> "disconnect", sid |-> "sid_b", raised |-> FALSE]
    /\ cpc["sid_b"] = "new"
    /\ connected_clients = {"sid_a"}
    /\ analytics_room = {"sid_a"}
    /\ lpc = "sleep"

-----------------------------------------------------------------------------
(* Claims about the queries on the history, checked under SpecQuery *)

\* the rows of h that are not before start and are of the metric of the filter
RowsInRange(h, start, metric) ==
    {i \in DOMAIN h :
        /\ Instant(h[i].timestamp) >= start
        /\ metric # "" => h[i].metric_name = metric}

Entry(r) ==
    [metric_name |-> r.metric_name, value |-> r.value,
     timestamp |-> r.timestamp, category |-> r.category]

\* C8: the historical query returns only records whose timestamp is at or
\* after the start instant and whose metric_name is the filter's when one is
\* given, in non-increasing order of timestamp, never more than 1000, and when
\* more than 1000 match, those with the greatest timestamps
C8_HistoricalRangeOrderedCapped ==
    probe.op = "historical" =>
        LET out == probe.out
            inrange == RowsInRange(history, probe.start, probe.metric)
            entries == {Entry(history[i]) : i \in inrange}
        IN  /\ \A k \in 1 .. Len(out) :
                 /\ Instant(out[k].timestamp) >= probe.start
                 /\ probe.metric # "" => out[k].metric_name = probe.metric
                 /\ out[k] \in entries
            /\ \A k \in 1 .. Len(out) - 1 :
                 Instant(out[k].timestamp) >= Instant(out[k + 1].timestamp)
            /\ Len(out) <= 1000
            /\ Cardinality(inrange) > 1000 =>
                 /\ Len(out) = 1000
                 /\ LET least == Instant(out[1000].timestamp)
                    IN  Cardinality({i \in inrange :
                                       Instant(history[i].timestamp) > least})
                          = Cardinality({k \in 1 .. 1000 :
                                           Instant(out[k].timestamp) > least})

\* C8 witness: a query without a metric filter on a history of which more than
\* 1000 records are in range returned 1000 of them
C8_Witness ==
    /\ probe.op = "historical"
    /\ probe.metric = ""
    /\ Cardinality(RowsInRange(history, probe.start, "")) > 1000
    /\ Len(probe.out) = 1000

\* C9: for a metric that has a history record, get_latest_metric_value returns
\* the value of a record of that metric whose timestamp no record of the
\* metric exceeds
C9_LatestIsGreatestOfMetric ==
    (/\ probe.op = "latest"
     /\ \E i \in DOMAIN history : history[i].metric_name = probe.metric)
      => \E i \in DOMAIN history :
            /\ history[i].metric_name = probe.metric
            /\ history[i].value = probe.out
            /\ \A j \in DOMAIN history :
                  history[j].metric_name = probe.metric
                     => Instant(history[j].timestamp)
                          <= Instant(history[i].timestamp)

\* C9 witness: the latest value of a metric was read from a history that holds
\* an older record of the metric with another value and a newer record of
\* another metric
C9_Witness ==
    /\ probe.op = "latest"
    /\ \E i, j, k \in DOMAIN history :
          /\ history[i].metric_name = probe.metric
          /\ history[i].value = probe.out
          /\ history[j].metric_name = probe.metric
          /\ history[j].value # probe.out
          /\ Instant(history[j].timestamp) < Instant(history[i].timestamp)
          /\ history[k].metric_name # probe.metric
          /\ Instant(history[k].timestamp) > Instant(history[i].timestamp)

-----------------------------------------------------------------------------
(* Claims about consecutive ticks and the gate, checked under Spec *)

\* C21: while a tick that follows an active tick reads its previous values,
\* each value read for a metric is the value the earlier tick published for it
\* in real_time_data and stored in a row of the metric
C21_BaseIsPreviousTickValue ==
    (lpc \in {"generate", "assign"} /\ DOMAIN real_time_data = BroadcastSet)
       => \A m \in DOMAIN tick_base :
             /\ tick_base[m] = real_time_data[m].value
             /\ \E i \in RowsOf(history, real_time_data[m]) :
                   /\ history[i].metric_name = m
                   /\ history[i].value = tick_base[m]

\* C21 witness: the second of two active ticks has read all its previous
\* values, and that of revenue is not the value of the sample rows
C21_Witness ==
    /\ lpc = "assign"
    /\ ticks = 2
    /\ DOMAIN real_time_data = BroadcastSet
    /\ DOMAIN tick_base = BroadcastSet
    /\ tick_base["revenue"] = real_time_data["revenue"].value
    /\ \A i \in DOMAIN history :
          history[i].source = "historical" => history[i].value # tick_base["revenue"]

-----------------------------------------------------------------------------
(* Further claims about the generators, checked under SpecGen *)

\* C22 as claimed: the value less the previous value is the reported change
\* whenever previous plus change is not negative, and otherwise the value is 0
C22_ValueLessPreviousIsChange ==
    probe.op = "sample" =>
        LET b == probe.base_value
            out == probe.out
        IN  /\ b + out.change >= 0 => out.value - b = out.change
            /\ b + out.change < 0 => out.value = 0

\* C22 amended: value and change are the clamped sum and the variation, each
\* rounded to two decimals: the value is within 0.005 of previous plus
\* variation when that is not negative, and then within 0.01 of previous plus
\* the reported change, and is 0 otherwise; the change is within 0.005 of the
\* variation, clamped or not
C22_ValueIsRoundedClampedSum ==
    /\ probe.op = "sample" =>
          LET b == probe.base_value
              v == probe.variation
              out == probe.out
          IN  /\ out.value % 10 = 0 /\ out.change % 10 = 0
              /\ Abs(out.change - v) <= 5
              /\ b + v >= 0 => /\ Abs(out.value - (b + v)) <= 5
                               /\ Abs(out.value - b - out.change) <= 10
              /\ b + v < 0 => out.value = 0
    /\ probe.op = "live" =>
          \A m \in LiveSet :
             LET b == LiveBaseValue(m)
                 v == probe.variation[m]
                 out == probe.out[m]
             IN  /\ Abs(out.change - v) <= 5
                 /\ b + v >= 0 => /\ Abs(out.value - (b + v)) <= 5
                                  /\ Abs(out.value - b - out.change) <= 10
                 /\ b + v < 0 => out.value = 0

\* C22 witness: a sample whose previous value plus variation is not negative
\* and whose value less the previous value is not the reported change
C22_Witness ==
    /\ probe.op = "sample"
    /\ probe.base_value + probe.variation >= 0
    /\ probe.out.value - probe.base_value # probe.out.change

\* the range of changes the variation policy gives a metric, in thousandths
PolicyRange(metric) ==
    CASE metric = "revenue" -> -100000 .. 200000
      [] metric = "active_users" -> -10000 .. 25000
      [] metric = "orders" -> -2000 .. 5000
      [] metric = "conversion_rate" -> -500 .. 1000
      [] metric = "page_views" -> -50000 .. 100000
      [] OTHER -> -5000 .. 10000

\* C23: the change of a sample whose variation generate_realistic_variation
\* drew lies in the range of its metric's policy, and for a metric name the
\* table does not hold, in the default range -5 .. 10
C23_ChangeWithinPolicyRange ==
    (/\ probe.op = "sample"
     /\ probe.variation \in GenerateRealisticVariation(probe.metric, TRUE))
       => /\ probe.out.change >= -100000
          /\ probe.out.change \in PolicyRange(probe.metric)

\* C23 witness: the sample of a metric name that the table does not hold, with
\* the change at the low end of the default range
C23_Witness ==
    /\ probe.op = "sample"
    /\ probe.metric = "bounce_rate"
    /\ probe.variation = -5000
    /\ probe.out.change = -5000

-----------------------------------------------------------------------------
(* Further claims about the broadcaster and the handlers, checked under Spec *)

\* C24: every emit and every history append of the loop happens at a moment
\* when at least one sid is in connected_clients and in the room 'analytics'
C24_WorkOnlyWhileSomebodyListens ==
    [][(lpc \in {"emit", "store"} /\ lpc' = StepAfter(lpc))
          => connected_clients \cap analytics_room # {}]_vars

\* no socket handler is between two of its statements
HandlersAtRest == \A c \in Clients : cpc[c] \in {"new", "ready", "gone"}

\* C26: whenever no socket handler is in mid-execution, connected_clients is the
\* membership of the room 'analytics'
C26_RegisteredIffInRoom ==
    HandlersAtRest => connected_clients = analytics_room

\* C26 witness: both handlers of sid_a have run, handle_connect of sid_b has
\* run, and no handler is running
C26_Witness ==
    /\ HandlersAtRest
    /\ cpc["sid_a"] = "gone"
    /\ cpc["sid_b"] = "ready"
    /\ connected_clients = {"sid_b"}
    /\ lpc = "emit"

\* an active tick of this run has completed: its rows are in the table
SomeTickStored ==
    \E i \in DOMAIN history :
       history[i].source = "live" /\ Instant(history[i].timestamp) >= StartInstant

\* no active tick has begun: the loop never passed its gate
NoActiveTickYet == DOMAIN new_data = {} /\ lpc \in {"check", "sleep"}

\* real_time_data is empty or holds one entry per broadcast metric
SnapshotShape(data) == DOMAIN data \in {{}, BroadcastSet}

\* C27: a handle_connect that sends its data after an active tick has completed
\* delivers real_time_data to its sid, all five samples of the most recent
\* active tick (the tick in progress once line 220 has run, else the tick whose
\* rows were stored last); one that does so before any active tick delivers
\* nothing; and real_time_data is always empty or holds exactly one entry per
\* broadcast metric
C27_SnapshotOnConnect ==
    [][/\ SnapshotShape(real_time_data) /\ SnapshotShape(real_time_data')
       /\ \A c \in Clients :
             (cpc[c] = "connect_data" /\ cpc'[c] = "ready")
                => /\ SomeTickStored
                        => /\ inbox'[c] = Append(inbox[c], real_time_data)
                           /\ DOMAIN real_time_data = BroadcastSet
                           /\ \/ real_time_data = new_data
                              \/ SubSeq(history,
                                        Len(history) - Len(BroadcastMetrics) + 1,
                                        Len(history)) = StoreRows(real_time_data)
                   /\ NoActiveTickYet => inbox'[c] = inbox[c]]_vars

\* C27 witness: the first tick was active, the second found no sid, and sid_b,
\* which connected after it, holds the snapshot of the first tick
C27_Witness ==
    /\ ticks = 2
    /\ lpc = "sleep"
    /\ SomeTickStored
    /\ DOMAIN new_data = BroadcastSet
    /\ new_data["revenue"].timestamp = IsoFormat(StartInstant)
    /\ cpc["sid_b"] = "ready"
    /\ inbox["sid_b"] = <<real_time_data>>
    /\ real_time_data = new_data

-----------------------------------------------------------------------------
(* Claims about the FastAPI login, checked under SpecLogin *)

\* the three credential pairs of the claim, with the role and id of each
DemoCredentials ==
    {[username |-> "admin", password |-> "admin123", role |-> "admin", id |-> 1],
     [username |-> "user", password |-> "user123", role |-> "user", id |-> 2],
     [username |-> "analyst", password |-> "analyst123", role |-> "analyst",
      id |-> 3]}

\* C25: the login succeeds for exactly the three demo credential pairs, then
\* with a bearer token and the user's role and id; every other pair of username
\* and password gets 401 and no token
C25_LoginAcceptsExactlyDemoPairs ==
    probe.op = "login"
       => LET matching == {d \in DemoCredentials :
                              /\ d.username = probe.username
                              /\ d.password = probe.password}
          IN  /\ \A d \in matching :
                    /\ probe.out.status = 200
                    /\ probe.out.success
                    /\ probe.out.token_type = "bearer"
                    /\ probe.out.access_token = <<"jwt", d.username>>
                    /\ probe.out.user.role = d.role
                    /\ probe.out.user.id = d.id
              /\ matching = {}
                    => /\ probe.out.status = 401
                       /\ "access_token" \notin DOMAIN probe.out

\* C25 witness: the username of one demo user with the password of another is
\* refused
C25_Witness ==
    /\ probe.op = "login"
    /\ probe.username = "admin"
    /\ probe.password = "user123"
    /\ probe.out.status = 401

-----------------------------------------------------------------------------
(* Claims about register, checked under SpecRegister *)

\* no two rows of table u share a username or an email
NoDuplicateUsers(u) ==
    \A i, j \in DOMAIN u :
       i # j => u[i].username # u[j].username /\ u[i].email # u[j].email

\* C28: whatever the interleaving of the register calls, no two rows of users
\* share a username or an email, and a call that ends while a row with its
\* username or its email exists adds no row and answers without a token
C28_RegisterKeepsUsersUnique ==
    [][/\ NoDuplicateUsers(users) /\ NoDuplicateUsers(users')
       /\ \A r \in Requests :
             (/\ reg[r].pc # "done"
              /\ reg'[r].pc = "done"
              /\ \E i \in DOMAIN users :
                    \/ users[i].username = reg'[r].data.username
                    \/ users[i].email = reg'[r].data.email)
                => /\ users' = users
                   /\ "token" \notin DOMAIN reg'[r].out
                   /\ reg'[r].out.status # 201]_vars

\* C28 witness: two concurrent calls with the same username both passed the
\* SELECT; the first INSERT created the user and the second was refused
C28_Witness ==
    /\ reg[1].pc = "done" /\ reg[2].pc = "done"
    /\ reg[1].data.username = reg[2].data.username
    /\ reg[1].out.status = 201
    /\ reg[2].out.status = 500
    /\ Len(users) = 2

-----------------------------------------------------------------------------
(* Claims about the initialization of the database, checked under SpecDb *)

\* the step is a start of the variant
Starts(variant) == starts' = starts + 1 /\ probe'.variant = variant

\* the rows of users with the username 'admin'
AdminRows(u) == {i \in DOMAIN u : u[i].username = "admin"}

\* C29: init_database of src/app.py and init_db of src/flask_app.py, run on a
\* table analytics_data that holds rows, insert no row; init_database leaves
\* exactly one admin user, adding none when there is one; and either leaves a
\* table that holds rows, so that every later run changes nothing
C29_InitializationIdempotent ==
    [][/\ Starts("app")
            => /\ history # <<>> => history' = history
               /\ AdminRows(users) # {} => users' = users
               /\ Cardinality(AdminRows(users')) = 1
               /\ history' # <<>>
       /\ Starts("flask_app")
            => /\ history # <<>> => history' = history
               /\ users' = users
               /\ history' # <<>>]_vars

\* C29 witness: init_database ran again on the database it had initialized,
\* a day later
C29_Witness ==
    /\ starts = 2
    /\ probe = [op |-> "start", variant |-> "app", only_simple |-> FALSE]
    /\ now = StartInstant + Day + Hour
    /\ users = <<AdminUser>>
    /\ history = GenerateComprehensiveSampleData(StartInstant)

\* the rows of h with the metric_name and timestamp of row
SamePair(h, row) ==
    {i \in DOMAIN h : /\ h[i].metric_name = row.metric_name
                      /\ h[i].timestamp = row.timestamp}

\* C30: every run of init_db of src/simple_main.py adds its 8 sample rows
\* after the rows of the table, replacing none; and after k runs on a database
\* that did not exist the table holds 8k rows, k of them for each pair of
\* metric_name and timestamp
C30_SimpleInitAddsEightRows ==
    [][/\ Starts("simple_main")
            => /\ Len(history') = Len(history) + 8
               /\ SubSeq(history', 1, Len(history)) = history
               /\ SubSeq(history', Len(history) + 1, Len(history')) = SimpleSampleData
       /\ probe'.only_simple
            => /\ Len(history') = 8 * starts'
               /\ \A i \in DOMAIN history' :
                     Cardinality(SamePair(history', history'[i])) = starts']_vars

\* C30 witness: three runs of init_db on a database that did not exist
C30_Witness ==
    /\ starts = 3
    /\ probe.op = "start"
    /\ probe.only_simple
    /\ Len(history) = 24
    /\ Cardinality(SamePair(history, SimpleSampleData[1])) = 3

=============================================================================
